---- MODULE Spec2Model ----
(***************************************************************************)
(* Retrieval core (scripts/embedding/rag_retriever.py) and response        *)
(* orchestrator (scripts/teaching_assistant.py) of the ARIA assistant.     *)
(*                                                                         *)
(* Texts, source files and questions are drawn from small catalogues; the  *)
(* string predicates the code evaluates on them (strip, substring tests,   *)
(* slices) are tabulated per catalogue entry.  Scores are integers in      *)
(* units of 1/10000 (cosine in percent times boost in percent).            *)
(* A Python exception is an explicit outcome: an operator that models a    *)
(* function returns a record whose exc field tells whether it raised.      *)
(***************************************************************************)
EXTENDS Integers, Sequences, FiniteSets, TLC

\* ------------------------------------------------------------------------
\* Bounds of the model
\* ------------------------------------------------------------------------
MaxDocs == 3
MaxTurns == 2
MaxN == 3

\* ------------------------------------------------------------------------
\* Program constants
\* ------------------------------------------------------------------------
D == 384
\* column count of a matrix persisted by another embedding model
OtherDim == 2 * D
ConceptK == 2
ExerciseK == 2
SolutionK == 1
MaxContext == 5
DefaultN == 8
BoostStep == 5
BoostCap == 6

NoVal == "<absent>"
NoTag == "<none>"

\* ------------------------------------------------------------------------
\* Catalogue of texts.  A text is [pre, tail]: pre stands for its first
\* 300 characters, tail for the rest ("" when the text is not longer).
\* ------------------------------------------------------------------------
Txt(p, t) == [pre |-> p, tail |-> t]

EmptyText == Txt("", "")
BlankText == Txt(" ", "")
NephronText == Txt("nephron filtration", "")
BeamText == Txt("stress in a beam", "")
BeamTextB == Txt("stress in a beam", "b")
FbGfrText == Txt("Glomerular filtration depends on", "")
FbHenleText == Txt("The loop of Henle establishes", "")
FbClearanceText == Txt("Clearance formulas", "")
UreaText == Txt("urea recycling", "")

\* (text or "").strip() is non-empty
HasText(t) == ~(t.pre \in {"", " "} /\ t.tail = "")

\* number of distinct renal_terms occurring in the lower-cased text
RenalHits(t) ==
    CASE t.pre = "nephron filtration" -> 2
      [] t.pre = "Glomerular filtration depends on" -> 3
      [] t.pre = "The loop of Henle establishes" -> 1
      [] t.pre = "Clearance formulas" -> 2
      [] t.pre = "renal kidney nephron glomerul tubule" -> 5
      [] t.pre = "renal kidney nephron glomerul tubule henle" -> 6
      [] t.pre = "renal kidney nephron glomerul tubule henle gfr" -> 7
      [] t.pre = "renal kidney nephron glomerul tubule henle gfr urine" -> 8
      [] OTHER -> 0

\* len(text) > 50 and one of valid_topics[:10] occurs in text[:500].lower()
TextHasCourseKeyword(t) == t.pre = "stress in a beam"

\* ------------------------------------------------------------------------
\* Metadata: the keys the code reads.  NoVal stands for a missing key.
\* concepts: "absent", "list" (strings) or "bad" (holds a non-string).
\* ------------------------------------------------------------------------
Meta(src, ct, tp, ck) ==
    [source_file |-> src, content_type |-> ct, topic |-> tp, concepts |-> ck]

EmptyMeta == Meta(NoVal, NoVal, NoVal, "absent")

\* ------------------------------------------------------------------------
\* Embedding matrix: vecs[i] names the text row i encodes (NanRow for a row
\* holding a non-finite entry), cols is the column count.
\* ------------------------------------------------------------------------
Embs(v, c) == [vecs |-> v, cols |-> c]

NanRow == [pre |-> "<nan>", tail |-> ""]

\* np.zeros((0, 384))
ZeroEmbs == Embs(<<>>, D)

\* ndarray.size
Size(e) == Len(e.vecs) * e.cols

\* ------------------------------------------------------------------------
\* Queries
\* ------------------------------------------------------------------------
NonString == "<non-string>"

Queries == {"moment about point A", "calculate kidney GFR"}

Questions == Queries \cup {"", "  ", "hi", "renal clearance",
                           "beam photography", "what is 5 psi", NonString}

\* any(t in q for t in renal_terms)
QueryHasRenalTerm(q) == q \in {"calculate kidney GFR", "renal clearance"}

\* cosine similarity (percent) of the query vector and the row of text v
Cos(q, v) ==
    CASE v = NephronText /\ QueryHasRenalTerm(q) -> 80
      [] v = NephronText -> 20
      [] v \in {BeamText, BeamTextB} /\ QueryHasRenalTerm(q) -> 30
      [] v \in {BeamText, BeamTextB} -> 70
      [] v = UreaText -> 5
      [] OTHER -> 10

\* ------------------------------------------------------------------------
\* Environment of one retrieve call: whether constructing the encoder,
\* encoding the documents and encoding the query succeed, and the order
\* argsort (numpy's default, not a stable sort) gives to equal scores: by
\* increasing index (stable) or by decreasing index.  Without an encoder
\* nothing can be encoded.  The order of equal scores is a property of the
\* numpy build, the same on every call (stableSort).
\* ------------------------------------------------------------------------
Envs ==
    {e \in [load : BOOLEAN, encDocs : BOOLEAN, encQuery : BOOLEAN,
            stable : BOOLEAN] : ~e.load => ~e.encDocs /\ ~e.encQuery}

Min(a, b) == IF a < b THEN a ELSE b
Max(a, b) == IF a > b THEN a ELSE b

\* ------------------------------------------------------------------------
\* StaticsMechanicsRAG
\* ------------------------------------------------------------------------
Result(t, m, s) ==
    [text |-> t, metadata |-> m, similarity_score |-> s,
     source |-> IF m.source_file # NoVal THEN m.source_file ELSE "unknown"]

\* the tag is dropped: the stored content type stays
RetagKeep(m, tag) == m

\* if tag_as: meta = meta.copy(); meta["content_type"] = tag_as
Retag(m, tag) == IF tag # NoTag THEN [m EXCEPT !.content_type = tag] ELSE m

FallbackBase ==
    << [text |-> FbGfrText,
        metadata |-> Meta("renal_overview.md", "course_slide",
                          "GFR determinants", "absent"),
        similarity_score |-> 7000, source |-> "renal_overview.md"],
       [text |-> FbHenleText,
        metadata |-> Meta("henle_notes.md", "course_slide",
                          "Countercurrent mechanism", "absent"),
        similarity_score |-> 6500, source |-> "henle_notes.md"],
       [text |-> FbClearanceText,
        metadata |-> Meta("clearance_solutions.md", "exercise_solution",
                          "Clearance calculations", "absent"),
        similarity_score |-> 6000, source |-> "clearance_solutions.md"] >>

\* fallback content scored zero
GetFallbackContentZeroScore(tag) ==
    [i \in 1..Len(FallbackBase) |->
        [FallbackBase[i] EXCEPT !.metadata = Retag(@, tag),
                                !.similarity_score = 0]]

\* _get_fallback_content(tag_as)
GetFallbackContent(tag) ==
    [i \in 1..Len(FallbackBase) |->
        [FallbackBase[i] EXCEPT !.metadata = Retag(@, tag)]]

\* the load that constructs an encoder on every call
LazyLoadEncoderAlways(encoder, env) ==
    IF env.load THEN [exc |-> FALSE, encoder |-> "loaded", built |-> TRUE]
    ELSE [exc |-> TRUE, encoder |-> encoder, built |-> FALSE]

\* _lazy_load_encoder: constructs the encoder when there is none; built
\* tells whether this call constructed one
LazyLoadEncoder(encoder, env) ==
    IF encoder = "loaded" THEN [exc |-> FALSE, encoder |-> "loaded", built |-> FALSE]
    ELSE IF env.load THEN [exc |-> FALSE, encoder |-> "loaded", built |-> TRUE]
    ELSE [exc |-> TRUE, encoder |-> "none", built |-> FALSE]

\* the shape test without the column count
NeedRebuildRowsOnly(docs, embs) == Len(embs.vecs) # Len(docs)

\* need_rebuild: the row count differs from len(docs) or the column count
\* from 384
NeedRebuild(docs, embs) == Len(embs.vecs) # Len(docs) \/ embs.cols # D

\* _ensure_doc_embeddings: ret is the returned matrix, stored the matrix
\* left in embeddings_data; the try block turns a failed load or encode
\* into an empty matrix, so exc is never set
EnsureDocEmbeddings(docs, embs, encoder, env) ==
    IF ~NeedRebuild(docs, embs)
    THEN [exc |-> FALSE, ret |-> embs, stored |-> embs, encoder |-> encoder,
          rebuilt |-> FALSE, built |-> FALSE]
    ELSE IF Len(docs) = 0
    THEN [exc |-> FALSE, ret |-> ZeroEmbs, stored |-> embs,
          encoder |-> encoder, rebuilt |-> FALSE, built |-> FALSE]
    ELSE LET ld == LazyLoadEncoder(encoder, env) IN
         IF ld.exc \/ ~env.encDocs
         THEN [exc |-> FALSE, ret |-> ZeroEmbs, stored |-> embs,
               encoder |-> ld.encoder, rebuilt |-> FALSE, built |-> ld.built]
         ELSE [exc |-> FALSE, ret |-> Embs(docs, D), stored |-> Embs(docs, D),
               encoder |-> ld.encoder, rebuilt |-> TRUE, built |-> ld.built]

\* _encode_query without its try block
EncodeQueryUncaught(q, encoder, env) ==
    LET ld == LazyLoadEncoder(encoder, env) IN
    IF ld.exc \/ ~env.encQuery
    THEN [exc |-> TRUE, vec |-> NoVal, encoder |-> ld.encoder,
          built |-> ld.built]
    ELSE [exc |-> FALSE, vec |-> q, encoder |-> ld.encoder, built |-> ld.built]

\* _encode_query: vec is the query vector, NoVal for None; the try block
\* turns a failed load or encode into None
EncodeQuery(q, encoder, env) ==
    LET ld == LazyLoadEncoder(encoder, env) IN
    IF ld.exc \/ ~env.encQuery
    THEN [exc |-> FALSE, vec |-> NoVal, encoder |-> ld.encoder,
          built |-> ld.built]
    ELSE [exc |-> FALSE, vec |-> q, encoder |-> ld.encoder, built |-> ld.built]

\* the boost without its cap
KeywordBoostUncapped(q, docs) ==
    [i \in 1..Len(docs) |->
        IF QueryHasRenalTerm(q)
        THEN 100 + BoostStep * RenalHits(docs[i])
        ELSE 100]

\* _keyword_boost, in percent
KeywordBoost(q, docs) ==
    [i \in 1..Len(docs) |->
        IF QueryHasRenalTerm(q)
        THEN 100 + BoostStep * Min(BoostCap, RenalHits(docs[i]))
        ELSE 100]

\* cosine_similarity(qvec, embs)[0] * boost; raises on a non-finite entry
Similarity(q, docs, embs) ==
    LET boost == KeywordBoost(q, docs) IN
    IF \E i \in 1..Len(embs.vecs) : embs.vecs[i] = NanRow
    THEN [exc |-> TRUE, sims |-> <<>>]
    ELSE [exc |-> FALSE,
          sims |-> [i \in 1..Len(embs.vecs) |->
                       Cos(q, embs.vecs[i]) * boost[i]]]

\* np.argsort(-sims): the indices by non-increasing score; equal scores
\* come by increasing index when stable, by decreasing index otherwise
ArgsortDesc(sims, stable) ==
    LET n == Len(sims)
        Before(a, b) == \/ sims[a] > sims[b]
                        \/ sims[a] = sims[b] /\ (IF stable THEN a < b ELSE a > b)
        Rank(a) == 1 + Cardinality({b \in 1..n : Before(b, a)})
    IN  [r \in 1..n |-> CHOOSE a \in 1..n : Rank(a) = r]

\* top_idx = np.argsort(-sims)[:k]
TopIdx(sims, k, stable) == SubSeq(ArgsortDesc(sims, stable), 1, Min(k, Len(sims)))

\* k = max(1, int(n_results or 8))
CapOf(n) == Max(1, IF n = 0 THEN DefaultN ELSE n)

\* metas[i] if i < len(metas) else {}
MetaAt(metas, i) == IF i <= Len(metas) THEN metas[i] ELSE EmptyMeta

\* the loop that builds the results of the index path
BuildResults(docs, metas, sims, top, tag) ==
    [j \in 1..Len(top) |->
        Result(docs[top[j]], Retag(MetaAt(metas, top[j]), tag), sims[top[j]])]

\* the stored metadatas after the result loop, were the tag written into
\* the stored dict of each chosen row
MetasAfterInPlace(metas, top, tag) ==
    [i \in 1..Len(metas) |->
        IF tag # NoTag /\ \E j \in 1..Len(top) : top[j] = i
        THEN Retag(metas[i], tag) ELSE metas[i]]

\* the stored metadatas after the result loop over the rows top: the tag
\* is written into a copy (meta = meta.copy()), the list keeps its dicts
MetasAfter(metas, top, tag) == metas

\* the encoders constructed by the stages of one call
Constructed(stages) ==
    Cardinality({i \in 1..Len(stages) : stages[i].built})

RetOut(results, path, ens, encoder, stages) ==
    [exc |-> FALSE, results |-> results, path |-> path,
     stored |-> ens.stored, encoder |-> encoder, rebuilt |-> ens.rebuilt,
     constructed |-> Constructed(stages), top |-> <<>>]

\* an exception leaving retrieve_relevant_content
RetRaise(ens, encoder, stages) ==
    [exc |-> TRUE, results |-> <<>>, path |-> "raised",
     stored |-> ens.stored, encoder |-> encoder, rebuilt |-> ens.rebuilt,
     constructed |-> Constructed(stages), top |-> <<>>]

\* retrieve_relevant_content(query, n_results, tag_as) on the index
\* (docs, metas, embs) with the encoder state encoder
RetrieveRelevantContent(q, n, tag, docs, metas, embs, encoder, env) ==
    LET noEns == [exc |-> FALSE, ret |-> embs, stored |-> embs,
                  encoder |-> encoder, rebuilt |-> FALSE, built |-> FALSE]
    IN
    IF Len(docs) = 0
    THEN RetOut(GetFallbackContent(tag), "no_documents", noEns, encoder, <<>>)
    ELSE
    LET ens == EnsureDocEmbeddings(docs, embs, encoder, env) IN
    IF ens.exc THEN RetRaise(ens, ens.encoder, <<ens>>)
    ELSE IF Size(ens.ret) = 0
    THEN RetOut(GetFallbackContent(tag), "no_embeddings", ens, ens.encoder, <<ens>>)
    ELSE
    LET qv == EncodeQuery(q, ens.encoder, env) IN
    IF qv.exc THEN RetRaise(ens, qv.encoder, <<ens, qv>>)
    ELSE IF qv.vec = NoVal
    THEN RetOut(GetFallbackContent(tag), "query_failed", ens, qv.encoder, <<ens, qv>>)
    ELSE
    LET sm == Similarity(q, docs, ens.ret) IN
    IF sm.exc
    THEN RetOut(GetFallbackContent(tag), "similarity_failed", ens, qv.encoder, <<ens, qv>>)
    ELSE
    LET top == TopIdx(sm.sims, CapOf(n), env.stable)
        results == BuildResults(docs, metas, sm.sims, top, tag)
    IN
    IF ~\E j \in 1..Len(results) : HasText(results[j].text)
    THEN [RetOut(GetFallbackContent(tag), "no_text", ens, qv.encoder,
                 <<ens, qv>>) EXCEPT !.top = top]
    ELSE [RetOut(results, "index", ens, qv.encoder, <<ens, qv>>)
             EXCEPT !.top = top]

\* ------------------------------------------------------------------------
\* StaticsMechanicsTA: relevance check
\* ------------------------------------------------------------------------
\* question.strip()
Strip(q) == IF q = "  " THEN "" ELSE q

\* keywords of all_keywords matched on word boundaries
MatchedKeywords(q) ==
    CASE Strip(q) = "moment about point A" -> {"moment"}
      [] Strip(q) = "calculate kidney GFR" -> {"calculate"}
      [] Strip(q) = "beam photography" -> {"beam"}
      [] OTHER -> {}

\* some entry of non_engineering_contexts occurs in the question
HasNonEngineeringContext(q) == Strip(q) = "beam photography"

CoincidentalKeywords ==
    {"beam", "force", "load", "stress", "pressure", "calculate"}

\* a unit, a symbol or a formula pattern matches
HasUnitSymbolOrFormula(q) == Strip(q) = "what is 5 psi"

\* _is_question_course_relevant
IsQuestionCourseRelevant(q) ==
    IF q = "" \/ q = NonString THEN FALSE
    ELSE IF Strip(q) \in {"", "hi"} THEN FALSE
    ELSE IF MatchedKeywords(q) # {}
    THEN ~(HasNonEngineeringContext(q)
           /\ MatchedKeywords(q) \cap CoincidentalKeywords # {})
    ELSE HasUnitSymbolOrFormula(q)

\* _validate_and_check_course_relevance
ValidateAndCheckCourseRelevance(q) ==
    IF q = "" THEN FALSE
    ELSE IF q = NonString THEN FALSE
    ELSE IF Strip(q) = "" THEN FALSE
    ELSE IsQuestionCourseRelevant(Strip(q))

\* ------------------------------------------------------------------------
\* StaticsMechanicsTA: context assembly
\* ------------------------------------------------------------------------
\* content["text"][:300]
Prefix300(t) == t.pre

\* _deduplicate_content: keeps the first content of every text hash
RECURSIVE DedupFrom(_, _, _)
DedupFrom(cl, i, seen) ==
    IF i > Len(cl) THEN <<>>
    ELSE IF Prefix300(cl[i].text) \in seen THEN DedupFrom(cl, i + 1, seen)
    ELSE <<cl[i]>> \o DedupFrom(cl, i + 1, seen \cup {Prefix300(cl[i].text)})

DeduplicateContent(cl) == DedupFrom(cl, 1, {})

\* the slice dropped: every unique content is kept
CapContextAll(cl) == cl

\* unique_content[:5]
CapContext(cl) == SubSeq(cl, 1, Min(MaxContext, Len(cl)))

\* _prepare_context raises when ', '.join(concepts) meets a non-string
PrepareContextRaises(cl) ==
    \E i \in 1..Len(cl) : cl[i].metadata.concepts = "bad"

\* ------------------------------------------------------------------------
\* StaticsMechanicsTA: source references
\* ------------------------------------------------------------------------
\* first non-empty of metadata source_file and content source
SourceFileOf(c) ==
    IF c.metadata.source_file # NoVal THEN c.metadata.source_file ELSE c.source

\* basename, extensions and separators removed, title case, known names
CleanSource(f) ==
    CASE f \in {"beam_bending_members_extracted.json",
                "beam_bending_members_extracted.pdf"}
            -> "Beams: Flexural Stresses and Strains"
      [] f = "nephron.json" -> "Nephron"
      [] f = "kidney_chart.pdf" -> "Kidney Chart"
      [] f = "renal_overview.md" -> "Renal Overview.Md"
      [] f = "henle_notes.md" -> "Henle Notes.Md"
      [] f = "clearance_solutions.md" -> "Clearance Solutions.Md"
      [] OTHER -> "Unknown"

\* any(topic in source_lower for topic in valid_topics)
NameHasCourseKeyword(name) == name = "Beams: Flexural Stresses and Strains"

\* any(indicator in source_lower for indicator in invalid_indicators)
NameHasInvalidIndicator(name) == name = "Kidney Chart"

\* any(valid_topic in topic for valid_topic in valid_topics)
TopicHasCourseKeyword(tp) == tp = "beam stress"

\* _validate_source_document
ValidateSourceDocument(c, name) ==
    (NameHasCourseKeyword(name)
     \/ TopicHasCourseKeyword(c.metadata.topic)
     \/ TextHasCourseKeyword(c.text))
    /\ ~NameHasInvalidIndicator(name)

\* _format_source_references: the set of names the joined string lists
FormatSourceReferences(cl) ==
    {CleanSource(SourceFileOf(cl[i])) : i \in
        {j \in 1..Len(cl) :
            ValidateSourceDocument(cl[j], CleanSource(SourceFileOf(cl[j])))}}

\* ------------------------------------------------------------------------
\* Indexes a freshly constructed retriever can hold (_load_embeddings with
\* either pickle, or none)
\* ------------------------------------------------------------------------
CorpusText(c, i) ==
    CASE c = "mixed" /\ i % 3 = 1 -> NephronText
      [] c = "mixed" /\ i % 3 = 2 -> BeamText
      [] c = "mixed" -> BeamTextB
      [] c = "blank" /\ i % 2 = 1 -> EmptyText
      [] c = "blank" -> BlankText
      [] c = "part" /\ i = 1 -> BlankText
      [] OTHER -> BeamText

CorpusFile(i) ==
    CASE i % 4 = 1 -> "beam_bending_members_extracted.json"
      [] i % 4 = 2 -> "nephron.json"
      [] i % 4 = 3 -> "beam_bending_members_extracted.pdf"
      [] OTHER -> "kidney_chart.pdf"

CorpusMeta(m, i) ==
    CASE m = "bad" /\ i = 1 -> Meta(CorpusFile(i), "exercise", "renal", "bad")
      [] m = "topic" -> Meta(CorpusFile(i), "exercise", "beam stress", "list")
      [] m = "nofile" -> Meta(NoVal, NoVal, "renal", "absent")
      [] OTHER -> Meta(CorpusFile(i), "course_slide", "renal", "absent")

\* corpus, metadata and persisted-matrix kinds of the modelled indexes,
\* and whether the numpy of the installation sorts equal scores stably
IndexKinds ==
    {<<"mixed", "plain", "match", TRUE>>, <<"mixed", "short", "none", TRUE>>,
     <<"mixed", "bad", "wrongdim", TRUE>>, <<"mixed", "topic", "short", TRUE>>,
     <<"mixed", "nofile", "nan", TRUE>>, <<"blank", "plain", "match", TRUE>>,
     <<"part", "plain", "flat", TRUE>>, <<"part", "topic", "match", TRUE>>,
     <<"mixed", "plain", "match", FALSE>>, <<"mixed", "topic", "short", FALSE>>,
     <<"mixed", "absent", "none", TRUE>>}

DocsOf(c, n) == [i \in 1..n |-> CorpusText(c, i)]

MetasOf(m, n) ==
    [i \in 1..(IF m = "short" /\ n > 0 THEN n - 1 ELSE n) |-> CorpusMeta(m, i)]

EmbsOf(e, docs) ==
    CASE e = "match" -> Embs(docs, D)
      [] e = "none" -> ZeroEmbs
      [] e = "wrongdim" -> Embs(docs, OtherDim)
      [] e = "short" -> Embs(SubSeq(docs, 1, Len(docs) - 1), D)
      [] OTHER -> Embs([i \in 1..Len(docs) |-> IF i = 1 THEN NanRow ELSE docs[i]], D)

\* ------------------------------------------------------------------------
\* The persisted pickles and their normalisation into the in-memory store
\* ------------------------------------------------------------------------
\* the value under "embeddings": missing (None), a one-dimensional array
\* or a matrix
RawEmbs(e, docs) ==
    CASE e = "none" -> [given |-> FALSE, ndim |-> 0, value |-> ZeroEmbs]
      [] e = "flat" -> [given |-> TRUE, ndim |-> 1, value |-> ZeroEmbs]
      [] OTHER -> [given |-> TRUE, ndim |-> 2, value |-> EmbsOf(e, docs)]

\* embeddings_data.pkl: flat lists; the "metadatas" key may be missing
LegacyPickle(k, n) ==
    [schema |-> "legacy",
     documents |-> DocsOf(k[1], n),
     has_metadatas |-> k[2] # "absent",
     metadatas |-> MetasOf(k[2], n),
     spans |-> <<>>,
     embeddings |-> RawEmbs(k[3], DocsOf(k[1], n))]

\* kb.pkl: spans with their text and document name
KbPickle(k, n) ==
    [schema |-> "kb",
     documents |-> <<>>,
     has_metadatas |-> FALSE,
     metadatas |-> <<>>,
     spans |-> [i \in 1..n |-> [text |-> CorpusText(k[1], i), doc |-> CorpusFile(i)]],
     embeddings |-> RawEmbs(k[3], DocsOf(k[1], n))]

\* neither pickle is in embeddings/
NoPickle ==
    [schema |-> "none", documents |-> <<>>, has_metadatas |-> FALSE,
     metadatas |-> <<>>, spans |-> <<>>, embeddings |-> RawEmbs("none", <<>>)]

\* the metadata kind "plain" is the one _normalize_kb writes
PickleOf(k, n) == IF k[2] = "plain" THEN KbPickle(k, n) ELSE LegacyPickle(k, n)

\* np.asarray(embs_raw) if embs_raw is not None else np.zeros((0, 384));
\* if embs.ndim != 2: embs = np.zeros((0, 384))
ToMatrix(raw) == IF raw.given /\ raw.ndim = 2 THEN raw.value ELSE ZeroEmbs

\* list(range(n))
RangeIds(n) == [i \in 1..n |-> i - 1]

\* the store __init__ sets before _load_embeddings
EmptyStore ==
    [documents |-> <<>>, embeddings |-> ZeroEmbs, metadatas |-> <<>>,
     ids |-> <<>>]

\* _normalize_legacy
NormalizeLegacy(data) ==
    [documents |-> data.documents,
     embeddings |-> ToMatrix(data.embeddings),
     metadatas |-> IF data.has_metadatas THEN data.metadatas
                   ELSE [i \in 1..Len(data.documents) |-> EmptyMeta],
     ids |-> RangeIds(Len(data.documents))]

\* _normalize_kb
NormalizeKb(kb) ==
    [documents |-> [i \in 1..Len(kb.spans) |-> kb.spans[i].text],
     embeddings |-> ToMatrix(kb.embeddings),
     metadatas |-> [i \in 1..Len(kb.spans) |->
                       Meta(kb.spans[i].doc, "course_slide", "renal", "absent")],
     ids |-> RangeIds(Len(kb.spans))]

\* _load_embeddings: the legacy pickle first, then kb.pkl, else the empty
\* store
LoadEmbeddings(pickle) ==
    CASE pickle.schema = "legacy" -> NormalizeLegacy(pickle)
      [] pickle.schema = "kb" -> NormalizeKb(pickle)
      [] OTHER -> EmptyStore

Tags == {NoTag, "exercise_question"}

Replies == {"answer"}

TechnicalDifficulties == [reply |-> "technical difficulties", sources |-> {}]

\* ------------------------------------------------------------------------
\* State
\* ------------------------------------------------------------------------
VARIABLES
    documents, metadatas, embeddings, ids, encoder, stableSort, rebuilds,
    loaded, builds,
    lastRet,
    pc, turns, question, is_relevant, content, failed,
    response, result, requests, retrievals, storeCalls, fileLog, steps,
    all_content, unique_content, assembled, apc,
    text, chunk_size, overlap, overlapped_chunks, cpc,
    bquery, bdocs, boost, bpc,
    rdocs, rstored, rloaded, rpc, rvecs, rembs, rret,
    gquestion, gdocs, gmetas, gembs, gencoder, gstable, gpc, gconcept, gall, gunique, genvs, gembs0,
    connected, ta_session_id, ui_session_id, uuids, conversations, uiPc, uiTurn, user_input, response_data, turnCalls,
    fallback_file, feedback_data, fbLast

\* the inputs and outputs of the functions checked on their own:
\* _get_relevant_content's combination step and chunk_text
assembleVars == <<all_content, unique_content, assembled, apc>>
chunkVars == <<text, chunk_size, overlap, overlapped_chunks, cpc>>
boostVars == <<bquery, bdocs, boost, bpc>>
rebuildVars == <<rdocs, rstored, rloaded, rpc, rvecs, rembs, rret>>
gatherVars == <<gquestion, gdocs, gmetas, gembs, gencoder, gstable, gpc, gconcept, gall, gunique, genvs, gembs0>>
uiVars == <<connected, ta_session_id, ui_session_id, uuids, conversations, uiPc, uiTurn, user_input, response_data, turnCalls>>
feedbackVars == <<fallback_file, feedback_data, fbLast>>
pureVars == <<assembleVars, chunkVars, boostVars, rebuildVars, gatherVars, uiVars, feedbackVars>>
ragVars == <<documents, metadatas, embeddings, ids, encoder, stableSort,
            rebuilds, loaded, builds>>
taVars == <<pc, question, is_relevant, content, failed, response, result,
            requests, retrievals, storeCalls, fileLog, steps>>
\* the retriever and the assistant
mainVars == <<ragVars, lastRet, turns, taVars>>
vars == <<documents, metadatas, embeddings, ids, encoder, stableSort, rebuilds,
          loaded, builds, lastRet, pc, turns,
          question, is_relevant, content, failed, response, result, requests,
          retrievals, storeCalls, fileLog, steps, all_content, unique_content,
          assembled, apc, text, chunk_size, overlap, overlapped_chunks, cpc,
          bquery, bdocs, boost, bpc,
          rdocs, rstored, rloaded, rpc, rvecs, rembs, rret,
          gquestion, gdocs, gmetas, gembs, gencoder, gstable, gpc, gconcept, gall, gunique, genvs, gembs0,
          connected, ta_session_id, ui_session_id, uuids, conversations, uiPc, uiTurn, user_input, response_data, turnCalls,
          fallback_file, feedback_data, fbLast>>

NoRet == [called |-> FALSE]

\* the stored matrix has one row per document and D columns
ShapeMatches(docs, embs) == Len(embs.vecs) = Len(docs) /\ embs.cols = D
NoResult == [pending |-> TRUE]
NoResponse == [reply |-> "", sources |-> {}]

\* no call of _get_relevant_content's combination step or of chunk_text
\* is under way
AssembleIdle ==
    /\ all_content = <<>>
    /\ unique_content = <<>>
    /\ assembled = <<>>
    /\ apc = "off"

ChunkIdle ==
    /\ text = <<>>
    /\ chunk_size = 0
    /\ overlap = 0
    /\ overlapped_chunks = <<>>
    /\ cpc = "off"

\* no call of _keyword_boost is under way
BoostIdle ==
    /\ bquery = ""
    /\ bdocs = <<>>
    /\ boost = <<>>
    /\ bpc = "off"

\* no rebuild of the document embeddings is under way
RebuildIdle ==
    /\ rdocs = <<>>
    /\ rstored = ZeroEmbs
    /\ rloaded = ZeroEmbs
    /\ rpc = <<>>
    /\ rvecs = <<>>
    /\ rembs = <<>>
    /\ rret = <<>>

\* no call of _get_relevant_content is under way
GatherIdle ==
    /\ gquestion = ""
    /\ gdocs = <<>>
    /\ gmetas = <<>>
    /\ gembs = ZeroEmbs
    /\ gencoder = "none"
    /\ gstable = TRUE
    /\ gpc = "off"
    /\ gconcept = <<>>
    /\ gall = <<>>
    /\ gunique = <<>>
    /\ genvs = <<>>
    /\ gembs0 = ZeroEmbs

\* no UI session is open
UiIdle ==
    /\ connected = FALSE
    /\ ta_session_id = <<>>
    /\ ui_session_id = <<>>
    /\ uuids = 0
    /\ conversations = <<>>
    /\ uiPc = "off"
    /\ uiTurn = 0
    /\ user_input = ""
    /\ response_data = NoVal
    /\ turnCalls = 0

\* the feedback store is not in use
FeedbackIdle ==
    /\ fallback_file = "unused"
    /\ feedback_data = <<>>
    /\ fbLast = [op |-> "none"]

PureIdle == AssembleIdle /\ ChunkIdle /\ BoostIdle /\ RebuildIdle /\ GatherIdle /\ UiIdle /\ FeedbackIdle

\* a retriever with the empty store and no encoder
StoreIdle ==
    /\ documents = <<>>
    /\ metadatas = <<>>
    /\ embeddings = ZeroEmbs
    /\ ids = <<>>
    /\ encoder = "none"
    /\ stableSort = TRUE
    /\ rebuilds = 0
    /\ loaded = [documents |-> <<>>, metadatas |-> <<>>]
    /\ builds = 0

\* the assistant before its first turn
AssistantIdle ==
    /\ lastRet = NoRet
    /\ pc = "idle"
    /\ turns = 0
    /\ question = ""
    /\ is_relevant = FALSE
    /\ content = <<>>
    /\ failed = "no"
    /\ response = NoResponse
    /\ result = NoResult
    /\ requests = 0
    /\ retrievals = 0
    /\ storeCalls = <<>>
    /\ fileLog = <<>>
    /\ steps = <<>>

Init ==
    /\ \/ \E n \in 0..MaxDocs, k \in IndexKinds :
             LET store == LoadEmbeddings(PickleOf(k, n)) IN
             /\ documents = store.documents
             /\ metadatas = store.metadatas
             /\ embeddings = store.embeddings
             /\ ids = store.ids
             /\ stableSort = k[4]
       \/ LET store == LoadEmbeddings(NoPickle) IN
             /\ documents = store.documents
             /\ metadatas = store.metadatas
             /\ embeddings = store.embeddings
             /\ ids = store.ids
             /\ stableSort = TRUE
    /\ loaded = [documents |-> documents, metadatas |-> metadatas]
    /\ encoder = "none"
    /\ rebuilds = 0
    /\ builds = 0
    /\ PureIdle
    /\ lastRet = NoRet
    /\ pc = "idle"
    /\ turns = 0
    /\ question = ""
    /\ is_relevant = FALSE
    /\ content = <<>>
    /\ failed = "no"
    /\ response = NoResponse
    /\ result = NoResult
    /\ requests = 0
    /\ retrievals = 0
    /\ storeCalls = <<>>
    /\ fileLog = <<>>
    /\ steps = <<>>

\* the effect of one retrieve_relevant_content call on the retriever and
\* the record of the call
DoRetrieve(q, n, tag, env) ==
    LET r == RetrieveRelevantContent(q, n, tag, documents, metadatas,
                                     embeddings, encoder, env)
    IN  /\ env.stable = stableSort
        /\ embeddings' = r.stored
        /\ metadatas' = MetasAfter(metadatas, r.top, tag)
        /\ encoder' = r.encoder
        /\ rebuilds' = IF r.rebuilt THEN rebuilds + 1 ELSE rebuilds
        /\ builds' = builds + r.constructed
        /\ lastRet' = [called |-> TRUE, query |-> q, n |-> n, tag |-> tag,
                       exc |-> r.exc, results |-> r.results, path |-> r.path,
                       rebuilt |-> r.rebuilt,
                       mismatch |-> ~ShapeMatches(documents, embeddings),
                       canEncode |-> (encoder = "loaded" \/ env.load)
                                     /\ env.encDocs]
        /\ UNCHANGED <<documents, ids, stableSort, loaded, pureVars>>

\* a caller other than the assistant queries the retriever
RetrieveCall ==
    /\ pc = "idle"
    /\ turns < MaxTurns
    /\ \E q \in Queries, n \in 0..MaxN, tag \in Tags, env \in Envs :
          DoRetrieve(q, n, tag, env)
    /\ turns' = turns + 1
    /\ UNCHANGED taVars

\* the UI submits a question: generate_response starts
Submit ==
    /\ pc \in {"idle", "done"}
    /\ turns < MaxTurns
    /\ \E q \in Questions : question' = q
    /\ turns' = turns + 1
    /\ pc' = "check"
    /\ is_relevant' = FALSE
    /\ content' = <<>>
    /\ failed' = "no"
    /\ response' = NoResponse
    /\ result' = NoResult
    /\ requests' = 0
    /\ retrievals' = 0
    /\ storeCalls' = <<>>
    /\ fileLog' = <<>>
    /\ steps' = <<>>
    /\ lastRet' = NoRet
    /\ UNCHANGED <<ragVars, pureVars>>

\* an irrelevant question is answered with a canned reply
AfterCheckReject(rel) == IF rel THEN "concept" ELSE "return"

\* if is_course_relevant: retrieval and course messages; else: general
\* messages, then the completion request
AfterCheck(rel) == IF rel THEN "concept" ELSE "generate"

\* is_course_relevant = self._validate_and_check_course_relevance(...)
Check ==
    /\ pc = "check"
    /\ is_relevant' = ValidateAndCheckCourseRelevance(question)
    /\ steps' = Append(steps, "relevance")
    /\ pc' = AfterCheck(is_relevant')
    /\ UNCHANGED <<ragVars, pureVars, lastRet, turns, question, content, failed,
                   response, result, requests, retrievals, storeCalls,
                   fileLog>>

\* one facet of _get_relevant_content: a retrieve call with the facet's cap
\* and tag; finish maps the accumulated content to the content kept
Facet(at, k, tag, next, first, last) ==
    /\ pc = at
    /\ \E env \in Envs :
          /\ DoRetrieve(question, k, tag, env)
          /\ LET r == RetrieveRelevantContent(question, k, tag, documents,
                          metadatas, embeddings, encoder, env)
                 all == content \o r.results
             IN  /\ content' = IF last /\ ~r.exc
                                THEN CapContext(DeduplicateContent(all))
                                ELSE all
                 /\ pc' = IF r.exc THEN "except" ELSE next
                 /\ failed' = IF r.exc THEN "context" ELSE failed
    /\ retrievals' = retrievals + 1
    /\ steps' = IF first THEN Append(steps, "context") ELSE steps
    /\ UNCHANGED <<turns, question, is_relevant, response, result, requests,
                   storeCalls, fileLog>>

\* concept_content = self.rag.get_concept_related_content(question, 2)
ConceptFacet ==
    Facet("concept", ConceptK, "course_slide", "exercise", TRUE, FALSE)

\* exercise_content = self.rag.get_similar_exercises(question, 2)
ExerciseFacet ==
    Facet("exercise", ExerciseK, "exercise_question", "solution", FALSE, FALSE)

\* solution_content = self.rag.get_solution_guidance(question, 1), then
\* deduplication and the cap
SolutionFacet ==
    Facet("solution", SolutionK, "exercise_solution", "prepare", FALSE, TRUE)

\* context = self._prepare_context(...); messages = self._create_messages(...)
Prepare ==
    /\ pc = "prepare"
    /\ pc' = IF PrepareContextRaises(content) THEN "except" ELSE "generate"
    /\ failed' = IF PrepareContextRaises(content) THEN "context" ELSE failed
    /\ UNCHANGED <<ragVars, pureVars, lastRet, turns, question, is_relevant, content,
                   response, result, requests, retrievals, storeCalls,
                   fileLog, steps>>

\* the request is retried
AfterFailedRequestRetry == "generate"

\* where the handler goes when the completion request raises
AfterFailedRequest == "except"

\* response = self.client.chat.completions.create(...)
Generate ==
    /\ pc = "generate"
    /\ requests' = requests + 1
    /\ steps' = Append(steps, "request")
    /\ \/ \E r \in Replies :
             /\ response' = [reply |-> r, sources |-> {}]
             /\ pc' = "post"
             /\ failed' = failed
       \/ /\ response' = response
          /\ pc' = AfterFailedRequest
          /\ failed' = "request"
    /\ UNCHANGED <<ragVars, pureVars, lastRet, turns, question, is_relevant, content,
                   result, retrievals, storeCalls, fileLog>>

\* the Sources line appended to the reply (the empty set: none)
SourcesLine(rel, cl) ==
    IF rel /\ cl # <<>> THEN FormatSourceReferences(cl) ELSE {}

\* source references are appended to the reply
Post ==
    /\ pc = "post"
    /\ response' = [response EXCEPT !.sources = SourcesLine(is_relevant, content)]
    /\ steps' = Append(steps, "postprocess")
    /\ pc' = "log"
    /\ UNCHANGED <<ragVars, pureVars, lastRet, turns, question, is_relevant, content,
                   failed, result, requests, retrievals, storeCalls,
                   fileLog>>

ContextSources(cl) ==
    [i \in 1..Len(cl) |->
        IF cl[i].metadata.source_file # NoVal
        THEN cl[i].metadata.source_file ELSE "unknown"]

\* _extract_concepts_from_content
ExtractConcepts(cl) ==
    IF \E i \in 1..Len(cl) : cl[i].metadata.concepts = "list"
    THEN {"stress"} ELSE {}

\* _suggest_review_materials
SuggestReview(cl) ==
    {cl[i].metadata.topic : i \in {j \in 1..Len(cl) : cl[j].metadata.topic # NoVal}}

\* the fallback is entered only from the except branch
FallbackOnlyOnRaise(store, file) == IF store = "raise" THEN <<file>> ELSE <<>>

\* the write attempts to the local log file _log_interaction makes: none
\* when the store succeeded, else the one of _fallback_log_interaction
FallbackAttempts(store, file) == IF store = "ok" THEN <<>> ELSE <<file>>

\* self._log_interaction(question, response, relevant_content, time):
\* store_conversation succeeds, returns False or raises; the file write of
\* _fallback_log_interaction succeeds or raises (and is caught)
Log ==
    /\ pc = "log"
    /\ \E store \in {"ok", "false", "raise"}, file \in {"ok", "raise"} :
          /\ storeCalls' = Append(storeCalls,
                 [question |-> question, response |-> response,
                  context_sources |-> ContextSources(content),
                  concepts_used |-> ExtractConcepts(content),
                  outcome |-> store])
          /\ fileLog' = fileLog \o FallbackAttempts(store, file)
    /\ steps' = Append(steps, "log")
    /\ pc' = "return"
    /\ UNCHANGED <<ragVars, pureVars, lastRet, turns, question, is_relevant, content,
                   failed, response, result, requests, retrievals>>

\* the dictionary of the success path
SuccessResult(resp, rel, cl) ==
    [response |-> resp,
     relevant_topics |-> [i \in 1..Len(cl) |->
         IF cl[i].metadata.topic # NoVal THEN cl[i].metadata.topic ELSE "Unknown"],
     concepts_covered |-> ExtractConcepts(cl),
     suggested_review |-> SuggestReview(cl),
     is_course_relevant |-> rel,
     context_sources |-> ContextSources(cl)]

\* the reply built so far is returned with the error
ErrorResultPartial(resp, why) == [response |-> resp, error |-> why]

\* the dictionary of the except branch
ErrorResult(resp, why) == [response |-> TechnicalDifficulties, error |-> why]

Return ==
    /\ pc = "return"
    /\ result' = SuccessResult(response, is_relevant, content)
    /\ pc' = "done"
    /\ UNCHANGED <<ragVars, pureVars, lastRet, turns, question, is_relevant, content,
                   failed, response, requests, retrievals, storeCalls,
                   fileLog, steps>>

\* except Exception as e: the error dictionary is returned
Except ==
    /\ pc = "except"
    /\ result' = ErrorResult(response, failed)
    /\ pc' = "done"
    /\ UNCHANGED <<ragVars, pureVars, lastRet, turns, question, is_relevant, content,
                   failed, response, requests, retrievals, storeCalls,
                   fileLog, steps>>

Next ==
    \/ RetrieveCall
    \/ Submit
    \/ Check
    \/ ConceptFacet
    \/ ExerciseFacet
    \/ SolutionFacet
    \/ Prepare
    \/ Generate
    \/ Post
    \/ Log
    \/ Return
    \/ Except

Spec == Init /\ [][Next]_vars

\* ------------------------------------------------------------------------
\* Properties
\* ------------------------------------------------------------------------
FallbackPaths ==
    {"no_documents", "no_embeddings", "query_failed", "similarity_failed"}

FiveFields == {"response", "concepts_covered", "suggested_review",
               "context_sources", "is_course_relevant"}

Range(f) == {f[i] : i \in DOMAIN f}

\* C1: retrieve_relevant_content never raises to its caller: whatever the
\* query, the cap, the index and the failures of the encoder, every call
\* returns a list of results.
C1_RetrieveNeverRaises ==
    lastRet.called => ~lastRet.exc /\ lastRet.path # "raised"

\* a call on an index whose metadata list is shorter than its document
\* list, in which the query encoding failed
C1_Witness ==
    /\ lastRet.called
    /\ ~lastRet.exc
    /\ lastRet.path = "query_failed"
    /\ Len(metadatas) < Len(documents)

\* C2: with zero documents, after a failed re-encode, a failed query
\* encoding or a failed similarity computation, the call returns the fixed
\* fallback set: 1 to 5 results, each with text and a score in 0.6..0.7.
C2_FallbackSet ==
    lastRet.called /\ (Len(documents) = 0 \/ lastRet.path \in FallbackPaths)
    => /\ Len(lastRet.results) \in 1..5
       /\ \A i \in 1..Len(lastRet.results) :
             /\ HasText(lastRet.results[i].text)
             /\ lastRet.results[i].similarity_score \in 6000..7000
       /\ [i \in 1..Len(lastRet.results) |-> lastRet.results[i].text]
             = <<FbGfrText, FbHenleText, FbClearanceText>>

\* a call on an index with documents whose re-encode failed
C2_Witness ==
    /\ lastRet.called
    /\ lastRet.path = "no_embeddings"
    /\ Len(documents) > 0
    /\ Len(lastRet.results) = 3

\* C3: a call with n_results = k >= 1 returns at most k results, from the
\* index and from the fallback content alike.
C3_CapOnEveryPath ==
    lastRet.called /\ lastRet.n >= 1 => Len(lastRet.results) <= lastRet.n

\* C4: generate_response never raises; when the completion request or a
\* step before it raises, the result is the technical-difficulties message
\* with an error field, never a partly processed reply.
C4_FailureResult ==
    /\ pc # "raised"
    /\ pc = "done" /\ failed # "no"
       => /\ DOMAIN result = {"response", "error"}
          /\ result.response = TechnicalDifficulties

\* a call whose completion request raised has returned
C4_Witness ==
    /\ pc = "done"
    /\ failed = "request"
    /\ result.response = TechnicalDifficulties

\* C5: every result of generate_response has the five fields of the
\* public API, on the success path and on the failure path.
C5_FiveFields == pc = "done" => FiveFields \subseteq DOMAIN result

\* C6: the relevance check never blocks an answer: whichever value it
\* returns the completion request is issued and its reply returned; when
\* it returns false there is no retrieval call, no Sources line and
\* context_sources is empty.
C6_RelevanceNeverBlocks ==
    pc = "done"
    => /\ failed # "context" => requests = 1
       /\ failed = "no" => result.response.reply \in Replies
       /\ ~is_relevant
          => /\ requests = 1
             /\ retrievals = 0
             /\ failed = "no" => /\ result.response.sources = {}
                                 /\ result.context_sources = <<>>

\* a non-string question was answered
C6_Witness ==
    /\ pc = "done"
    /\ question = NonString
    /\ ~is_relevant
    /\ requests = 1
    /\ failed = "no"
    /\ result.response.reply \in Replies

\* C7: when the question is relevant and at least one chunk was used, the
\* response has a Sources line naming each distinct source of the chunks.
C7_SourcesLine ==
    pc = "done" /\ failed = "no" /\ is_relevant /\ content # <<>>
    => result.response.sources =
          {CleanSource(SourceFileOf(content[i])) : i \in 1..Len(content)}

\* C8: every call that returns has made a log attempt for the turn before
\* returning, and a failed turn is logged with an error field.
C8_EveryTurnLogged ==
    pc = "done"
    => /\ Len(storeCalls) >= 1
       /\ failed # "no"
          => \E i \in 1..Len(storeCalls) : "error" \in DOMAIN storeCalls[i]

\* C9: a log failure never fails the response: when store_conversation
\* returns false or raises there is exactly one write attempt to the local
\* file, and the generated reply is returned with the fields of a turn
\* whose logging succeeded, also when the file write fails.
C9_LogFailureHarmless ==
    /\ pc \in {"return", "done"} /\ failed = "no"
       => /\ Len(storeCalls) = 1
          /\ Len(fileLog) = (IF storeCalls[1].outcome = "ok" THEN 0 ELSE 1)
    /\ pc = "done" /\ failed = "no"
       => /\ result.response = response
          /\ result.response.reply \in Replies
          /\ DOMAIN result = FiveFields \cup {"relevant_topics"}

\* the store raised, the file write failed, the reply was returned
C9_Witness ==
    /\ pc = "done"
    /\ failed = "no"
    /\ storeCalls[1].outcome = "raise"
    /\ fileLog = <<"raise">>
    /\ result.response.reply \in Replies

StepRank(st) ==
    CASE st = "relevance" -> 1
      [] st = "context" -> 2
      [] st = "request" -> 3
      [] st = "postprocess" -> 4
      [] OTHER -> 5

\* C10: the steps of a call run in the order relevance check, context
\* assembly (relevant questions only), completion request, post-processing,
\* logging; at most one completion request is made, and after a failed
\* request the call ends in the failed outcome.
C10_StepOrder ==
    /\ \A i, j \in 1..Len(steps) : i < j => StepRank(steps[i]) < StepRank(steps[j])
    /\ steps # <<>> => steps[1] = "relevance"
    /\ "context" \in Range(steps) <=> retrievals > 0
    /\ retrievals > 0 => is_relevant
    /\ "request" \in Range(steps) /\ is_relevant => "context" \in Range(steps)
    /\ "postprocess" \in Range(steps) => "request" \in Range(steps)
    /\ "log" \in Range(steps) => "postprocess" \in Range(steps)
    /\ requests <= 1
    /\ requests = Cardinality({i \in 1..Len(steps) : steps[i] = "request"})
    /\ pc = "done" /\ failed = "no"
       => steps = (IF is_relevant
                   THEN <<"relevance", "context", "request", "postprocess", "log">>
                   ELSE <<"relevance", "request", "postprocess", "log">>)
    /\ failed = "request"
       => /\ pc \in {"except", "done"}
          /\ steps[Len(steps)] = "request"
          /\ pc = "done" => "error" \in DOMAIN result

\* a relevant question whose single completion request failed
C10_Witness ==
    /\ pc = "done"
    /\ is_relevant
    /\ failed = "request"
    /\ requests = 1
    /\ steps = <<"relevance", "context", "request">>

\* ------------------------------------------------------------------------
\* Retrieval: tagging, rebuild of the stored matrix, ranking
\* ------------------------------------------------------------------------
\* paths on which cosine_similarity was called
SearchPaths == {"index", "no_text", "similarity_failed"}

\* C11: when tag_as is supplied, every returned result, from the index and
\* from the fallback content alike, has metadata content_type equal to it.
C11_TagApplied ==
    lastRet.called /\ lastRet.tag # NoTag =>
        \A j \in 1..Len(lastRet.results) :
            lastRet.results[j].metadata.content_type = lastRet.tag

\* a tagged call answered from an index whose stored content types differ
\* from the tag
C11_Witness ==
    /\ lastRet.called
    /\ lastRet.tag = "exercise_question"
    /\ lastRet.path = "index"
    /\ Len(lastRet.results) > 1
    /\ \A i \in 1..Len(metadatas) : metadatas[i].content_type # lastRet.tag

C13_ExactlyOneRebuild ==
    /\ rebuilds <= 1
    /\ lastRet.called /\ lastRet.mismatch /\ Len(documents) > 0 =>
           lastRet.rebuilt /\ rebuilds = 1

\* C14: on the index path a call with n_results >= 1 returns exactly the
\* min(k, N) highest boosted scores, k = max(1, n_results), in
\* non-increasing score order, equal scores by increasing original index.
C14_TopKStable ==
    lastRet.called /\ lastRet.path = "index" /\ lastRet.n >= 1 =>
        LET sims == Similarity(lastRet.query, documents, embeddings).sims
            k == Min(Max(1, lastRet.n), Len(documents))
            byRank == ArgsortDesc(sims, TRUE)
        IN  /\ Len(lastRet.results) = k
            /\ \A j \in 1..Len(lastRet.results) :
                   /\ j <= Len(byRank)
                   /\ lastRet.results[j].text = documents[byRank[j]]
                   /\ lastRet.results[j].similarity_score = sims[byRank[j]]

\* C15: when the encoder model cannot be loaded the query is encoded as a
\* zero vector, so a call on an index with a matching finite matrix and
\* texts still returns chunks of the index.
C15_ZeroVectorOnLoadFailure ==
    /\ lastRet.called
    /\ ~lastRet.mismatch
    /\ Len(documents) > 0
    /\ encoder = "none"
    /\ \A i \in 1..Len(documents) :
           HasText(documents[i]) /\ embeddings.vecs[i] # NanRow
    => /\ lastRet.path = "index"
       /\ \A j \in 1..Len(lastRet.results) :
              \E i \in 1..Len(documents) :
                  lastRet.results[j].text = documents[i]

\* C16: no result with empty or whitespace-only text is returned.
C16_NoBlankResult ==
    lastRet.called =>
        \A j \in 1..Len(lastRet.results) : HasText(lastRet.results[j].text)

\* ------------------------------------------------------------------------
\* _get_relevant_content's combination step on arbitrary facet results:
\* all_content = concept + exercise + solution, then _deduplicate_content
\* and the slice [:5]
\* ------------------------------------------------------------------------
MaxGather == 7

\* the characters 301..400 of a text: a tail "bx" is longer than 100
\* characters and starts with the characters of the tail "b"
Next100(t) == IF t.tail = "bx" THEN "b" ELSE t.tail

\* text[:400]
Prefix400(t) == <<t.pre, Next100(t)>>

GatherPre(i) ==
    CASE i = 1 -> "free body diagram"
      [] i = 2 -> "method of joints"
      [] i = 3 -> "shear force"
      [] i = 4 -> "bending moment"
      [] i = 5 -> "centroid"
      [] i = 6 -> "moment of inertia"
      [] i = 7 -> "dry friction"
      [] OTHER -> "virtual work"

\* Results a retriever can return at position i of all_content: a chunk
\* of its own ("own"), or one that shares its first 300 characters with
\* the own chunk of position 1: the same source and first 400 characters
\* but a longer text ("long"), the same text in another source file
\* ("moved"), the same source and a difference within the characters
\* 301..400 ("near")
GatherKinds == {"own", "long", "moved", "near"}

GatherChunk(i, v) ==
    CASE v = "own" ->
           Result(Txt(GatherPre(i), "b"),
                  Meta("statics_notes.json", "course_slide", "statics", "absent"),
                  7000 - i)
      [] v = "long" ->
           Result(Txt(GatherPre(1), "bx"),
                  Meta("statics_notes.json", "course_slide", "statics", "absent"),
                  7000 - i)
      [] v = "moved" ->
           Result(Txt(GatherPre(1), "b"),
                  Meta("statics_exercises.json", "exercise", "statics", "absent"),
                  7000 - i)
      [] OTHER ->
           Result(Txt(GatherPre(1), "c"),
                  Meta("statics_notes.json", "course_slide", "statics", "absent"),
                  7000 - i)

\* every facet returned the fallback content
AllFallback ==
    GetFallbackContent("course_slide") \o GetFallbackContent("exercise_question")
        \o GetFallbackContent("exercise_solution")

\* the n results of kinds f gathered from the three facets
Gathered(n, f) == [i \in 1..n |-> GatherChunk(i, f[i])]

InitAssemble ==
    /\ StoreIdle
    /\ AssistantIdle
    /\ FeedbackIdle
    /\ UiIdle
    /\ GatherIdle
    /\ RebuildIdle
    /\ BoostIdle
    /\ ChunkIdle
    /\ \/ all_content = AllFallback
       \/ \E n \in 0..MaxGather :
             \E f \in [1..n -> GatherKinds] : all_content = Gathered(n, f)
    /\ unique_content = <<>>
    /\ assembled = <<>>
    /\ apc = "call"

\* unique_content = self._deduplicate_content(all_content);
\* return unique_content[:5]
DeduplicateAndCap ==
    /\ apc = "call"
    /\ unique_content' = DeduplicateContent(all_content)
    /\ assembled' = CapContext(DeduplicateContent(all_content))
    /\ apc' = "done"
    /\ UNCHANGED <<mainVars, feedbackVars, uiVars, gatherVars, rebuildVars, boostVars, all_content, chunkVars>>

NextAssemble == DeduplicateAndCap

SpecAssemble == InitAssemble /\ [][NextAssemble]_vars

\* positions of cl whose chunk has the first 400 characters and the
\* source of c
SameChunk400(cl, c) ==
    {k \in 1..Len(cl) : /\ Prefix400(cl[k].text) = Prefix400(c.text)
                        /\ cl[k].source = c.source}

\* C17: two retrieval results with identical first 400 characters of text
\* and identical source yield exactly one entry after deduplication, and
\* it is the one retrieved first.
C17_CollapseKeepsFirst ==
    apc = "done" =>
        \A i, j \in 1..Len(all_content) :
            i < j /\ j \in SameChunk400(all_content, all_content[i]) =>
                LET first == CHOOSE a \in SameChunk400(all_content, all_content[i]) :
                                 \A b \in SameChunk400(all_content, all_content[i]) : a <= b
                    kept == SameChunk400(unique_content, all_content[i])
                IN  /\ Cardinality(kept) = 1
                    /\ \A k \in kept : unique_content[k] = all_content[first]

\* C18: two retrieved chunks whose source files differ are both kept by
\* _deduplicate_content, even when their text prefixes are identical.
C18_SourceInKey ==
    apc = "done" =>
        \A i, j \in 1..Len(all_content) :
            all_content[i].source # all_content[j].source =>
                /\ \E k \in 1..Len(unique_content) : unique_content[k] = all_content[i]
                /\ \E k \in 1..Len(unique_content) : unique_content[k] = all_content[j]

\* C19: the assembled set never holds more than the configured maximum of
\* 5 chunks, whatever the three facets returned, the fallback content of
\* every facet included.
C19_AtMostFive ==
    apc = "done" => Len(assembled) <= MaxContext

\* more unique chunks than the maximum were gathered and the assembled set
\* holds the first five of them
C19_Witness ==
    /\ apc = "done"
    /\ Len(unique_content) > MaxContext
    /\ Len(assembled) = MaxContext
    /\ assembled = SubSeq(unique_content, 1, MaxContext)

\* ------------------------------------------------------------------------
\* CourseContentEmbedder.chunk_text (scripts/embedding/create_embeddings.py).
\* A string is a sequence of characters.
\* ------------------------------------------------------------------------
MaxLen == 5

Chars == {"a", " ", "."}

\* chunk_size and overlap: small values and the defaults
DefaultChunkSize == 500
DefaultOverlap == 50
ChunkSizes == {0, 4, DefaultChunkSize}
Overlaps == {0, 1, DefaultOverlap}

\* str.split('. '): the pieces between the occurrences of ". ", found
\* from left to right
RECURSIVE SplitFrom(_, _, _)
SplitFrom(s, i, cur) ==
    IF i > Len(s) THEN <<cur>>
    ELSE IF i < Len(s) /\ s[i] = "." /\ s[i + 1] = " "
    THEN <<cur>> \o SplitFrom(s, i + 2, <<>>)
    ELSE SplitFrom(s, i + 1, Append(cur, s[i]))

SplitSentences(s) == SplitFrom(s, 1, <<>>)

RECURSIVE LStrip(_)
LStrip(s) == IF s # <<>> /\ Head(s) = " " THEN LStrip(Tail(s)) ELSE s

RECURSIVE RStrip(_)
RStrip(s) ==
    IF s # <<>> /\ s[Len(s)] = " " THEN RStrip(SubSeq(s, 1, Len(s) - 1)) ELSE s

\* str.strip()
StripStr(s) == RStrip(LStrip(s))

\* str.split(): the maximal runs of non-blank characters
RECURSIVE WordsFrom(_, _, _)
WordsFrom(s, i, cur) ==
    LET done == IF cur = <<>> THEN <<>> ELSE <<cur>> IN
    IF i > Len(s) THEN done
    ELSE IF s[i] = " " THEN done \o WordsFrom(s, i + 1, <<>>)
    ELSE WordsFrom(s, i + 1, Append(cur, s[i]))

Words(s) == WordsFrom(s, 1, <<>>)

\* " ".join(words)
RECURSIVE Join(_)
Join(ws) ==
    IF ws = <<>> THEN <<>>
    ELSE IF Len(ws) = 1 THEN ws[1]
    ELSE ws[1] \o <<" ">> \o Join(Tail(ws))

\* words[-n:] for n > 0
LastWords(ws, n) == SubSeq(ws, Max(1, Len(ws) - n + 1), Len(ws))

\* the sentence loop: current_chunk and chunks after the sentences from i on
RECURSIVE SentenceLoop(_, _, _, _, _)
SentenceLoop(sentences, i, current_chunk, chunks, size) ==
    IF i > Len(sentences)
    THEN [current_chunk |-> current_chunk, chunks |-> chunks]
    ELSE IF Len(current_chunk) + Len(sentences[i]) < size
    THEN SentenceLoop(sentences, i + 1,
                      current_chunk \o sentences[i] \o <<".", " ">>,
                      chunks, size)
    ELSE SentenceLoop(sentences, i + 1, sentences[i] \o <<".", " ">>,
                      IF current_chunk # <<>>
                      THEN Append(chunks, StripStr(current_chunk))
                      ELSE chunks,
                      size)

\* the chunks without the flush of the last current_chunk
BaseChunksNoFlush(t, size) ==
    SentenceLoop(SplitSentences(t), 1, <<>>, <<>>, size).chunks

\* the chunks before the overlap pass
BaseChunks(t, size) ==
    LET r == SentenceLoop(SplitSentences(t), 1, <<>>, <<>>, size) IN
    IF r.current_chunk # <<>>
    THEN Append(r.chunks, StripStr(r.current_chunk))
    ELSE r.chunks

\* the overlap pass: every chunk but the first is preceded by the last
\* `overlap` words of the chunk before it
AddOverlap(chunks, ov) ==
    [i \in 1..Len(chunks) |->
        IF i > 1 /\ ov > 0
        THEN Join(LastWords(Words(chunks[i - 1]), ov)) \o <<" ">> \o chunks[i]
        ELSE chunks[i]]

\* chunk_text(text, chunk_size, overlap)
ChunkTextOf(t, size, ov) == AddOverlap(BaseChunks(t, size), ov)

InitChunk ==
    /\ StoreIdle
    /\ AssistantIdle
    /\ FeedbackIdle
    /\ UiIdle
    /\ GatherIdle
    /\ RebuildIdle
    /\ BoostIdle
    /\ AssembleIdle
    /\ text \in UNION {[1..n -> Chars] : n \in 0..MaxLen}
    /\ chunk_size \in ChunkSizes
    /\ overlap \in Overlaps
    /\ overlapped_chunks = <<>>
    /\ cpc = "call"

\* one call of chunk_text
ChunkText ==
    /\ cpc = "call"
    /\ overlapped_chunks' = ChunkTextOf(text, chunk_size, overlap)
    /\ cpc' = "done"
    /\ UNCHANGED <<mainVars, feedbackVars, uiVars, gatherVars, rebuildVars, boostVars, assembleVars, text, chunk_size, overlap>>

NextChunk == ChunkText

SpecChunk == InitChunk /\ [][NextChunk]_vars

\* C20: chunk_text returns an empty sequence for empty input text.
C20_EmptyInputNoChunks ==
    cpc = "done" /\ text = <<>> => overlapped_chunks = <<>>

\* current_chunk when it holds the sentences run: each followed by ". "
RECURSIVE RunText(_)
RunText(run) ==
    IF run = <<>> THEN <<>> ELSE Head(run) \o <<".", " ">> \o RunText(Tail(run))

\* the sentence loop seen as a grouping: the run of sentences each chunk
\* is made of (cur is the run current_chunk holds)
RECURSIVE RunLoop(_, _, _, _, _)
RunLoop(sentences, i, cur, runs, size) ==
    IF i > Len(sentences)
    THEN IF cur # <<>> THEN Append(runs, cur) ELSE runs
    ELSE IF Len(RunText(cur)) + Len(sentences[i]) < size
    THEN RunLoop(sentences, i + 1, Append(cur, sentences[i]), runs, size)
    ELSE RunLoop(sentences, i + 1, <<sentences[i]>>,
                 IF cur # <<>> THEN Append(runs, cur) ELSE runs, size)

SentenceRuns(sentences, size) == RunLoop(sentences, 1, <<>>, <<>>, size)

RECURSIVE Flatten(_)
Flatten(ss) == IF ss = <<>> THEN <<>> ELSE Head(ss) \o Flatten(Tail(ss))

\* the chunks of out without the overlap prefix the overlap pass put
\* before every chunk but the first
RECURSIVE WithoutOverlap(_, _, _, _)
WithoutOverlap(out, ov, i, done) ==
    IF i > Len(out) THEN done
    ELSE IF i > 1 /\ ov > 0
    THEN LET prefix == Join(LastWords(Words(done[i - 1]), ov)) \o <<" ">> IN
         WithoutOverlap(out, ov, i + 1,
                        Append(done, SubSeq(out[i], Len(prefix) + 1, Len(out[i]))))
    ELSE WithoutOverlap(out, ov, i + 1, Append(done, out[i]))

\* the sentences read back from a chunk: the pieces of chunk + " "
\* between the occurrences of ". ", without the empty piece after the last
SentencesOf(chunk) ==
    LET pieces == SplitSentences(chunk \o <<" ">>) IN
    SubSeq(pieces, 1, Len(pieces) - 1)

\* C21 as stated: the chunks without their overlap prefixes, read one
\* after the other, give back the original sentence sequence, every
\* sentence as it was in the text.
C21_ExactRoundTrip ==
    cpc = "done" =>
        LET base == WithoutOverlap(overlapped_chunks, overlap, 1, <<>>) IN
        Flatten([i \in 1..Len(base) |-> SentencesOf(base[i])])
            = SplitSentences(text)

\* C21 (amended): chunk_text places every sentence in exactly one chunk,
\* each chunk a contiguous run of sentences in original order, so that the
\* chunks without their overlap prefixes give back the sentence sequence
\* except for the blanks before the first sentence of a chunk, which the
\* strip of the chunk removes; no chunk is empty, and a chunk of more than
\* one sentence has at most chunk_size characters before the overlap
\* prefix is added.
C21_ChunksPartitionSentences ==
    cpc = "done" =>
        LET sentences == SplitSentences(text)
            runs == SentenceRuns(sentences, chunk_size)
            base == WithoutOverlap(overlapped_chunks, overlap, 1, <<>>)
        IN  /\ Len(overlapped_chunks) = Len(runs)
            /\ Flatten(runs) = sentences
            /\ \A i \in 1..Len(runs) :
                   /\ runs[i] # <<>>
                   /\ overlapped_chunks[i] # <<>>
                   /\ base[i] # <<>>
                   /\ SentencesOf(base[i]) = [runs[i] EXCEPT ![1] = LStrip(@)]
                   /\ Len(runs[i]) > 1 => Len(base[i]) <= chunk_size

\* a text of three sentences cut into two chunks, the first of two
\* sentences and exactly chunk_size characters, the second with an
\* overlap prefix
C21_Witness ==
    /\ cpc = "done"
    /\ overlap > 0
    /\ Len(SplitSentences(text)) = 3
    /\ Len(overlapped_chunks) = 2
    /\ Len(WithoutOverlap(overlapped_chunks, overlap, 1, <<>>)[1]) = chunk_size
    /\ Len(overlapped_chunks[2])
          > Len(WithoutOverlap(overlapped_chunks, overlap, 1, <<>>)[2])

\* ------------------------------------------------------------------------
\* The index: alignment of its arrays, the loaded store, the boost
\* ------------------------------------------------------------------------
\* C22: every result of the index path is built from one index i in range
\* of all three arrays: its text is documents[i], its metadata is
\* metadatas[i] (content_type replaced by the tag when one is given) and
\* its score is the boosted similarity of embedding row i.
C22_OneIndexPerResult ==
    lastRet.called /\ lastRet.path = "index" =>
        LET sims == Similarity(lastRet.query, documents, embeddings).sims IN
        \A j \in 1..Len(lastRet.results) :
            \E i \in 1..Len(documents) :
                /\ i <= Len(metadatas)
                /\ i <= Len(embeddings.vecs)
                /\ lastRet.results[j].text = documents[i]
                /\ lastRet.results[j].metadata =
                       [metadatas[i] EXCEPT !.content_type =
                           IF lastRet.tag # NoTag THEN lastRet.tag ELSE @]
                /\ lastRet.results[j].similarity_score = sims[i]

\* C23: the store built from either persisted schema has documents,
\* metadatas and ids of equal length and a two-dimensional embedding
\* matrix (a matrix is two-dimensional by its representation here: rows
\* and a column count).
C23_CanonicalStore ==
    /\ Len(metadatas) = Len(documents)
    /\ Len(ids) = Len(documents)
    /\ embeddings.cols \in {D, OtherDim}

\* ------------------------------------------------------------------------
\* _keyword_boost on its own: queries with and without a domain term,
\* documents with zero to eight distinct domain terms
\* ------------------------------------------------------------------------
BoostQueries == {"moment about point A", "calculate kidney GFR",
                 "renal clearance", "hi"}

BoostTexts ==
    {BeamText, FbHenleText, NephronText, FbGfrText,
     Txt("renal kidney nephron glomerul tubule", ""),
     Txt("renal kidney nephron glomerul tubule henle", ""),
     Txt("renal kidney nephron glomerul tubule henle gfr", ""),
     Txt("renal kidney nephron glomerul tubule henle gfr urine", "")}

InitBoost ==
    /\ StoreIdle
    /\ AssistantIdle
    /\ FeedbackIdle
    /\ UiIdle
    /\ GatherIdle
    /\ RebuildIdle
    /\ AssembleIdle
    /\ ChunkIdle
    /\ bquery \in BoostQueries
    /\ \E n \in 1..MaxDocs : bdocs \in [1..n -> BoostTexts]
    /\ boost = <<>>
    /\ bpc = "call"

\* boost = self._keyword_boost(query, docs)
ComputeBoost ==
    /\ bpc = "call"
    /\ boost' = KeywordBoost(bquery, bdocs)
    /\ bpc' = "done"
    /\ UNCHANGED <<mainVars, feedbackVars, uiVars, gatherVars, rebuildVars, assembleVars, chunkVars, bquery, bdocs>>

NextBoost == ComputeBoost

SpecBoost == InitBoost /\ [][NextBoost]_vars

\* C24: the boost of chunk i is 1 for every chunk when the query holds no
\* domain term, else 1 + 0.05 * min(6, hits_i); it lies between 1.00 and
\* 1.30 and never decreases as hits_i grows (in percent here).
C24_BoostFormula ==
    bpc = "done" =>
        /\ Len(boost) = Len(bdocs)
        /\ \A i \in 1..Len(bdocs) :
               LET hits == RenalHits(bdocs[i])
                   capped == IF hits < 6 THEN hits ELSE 6
               IN  /\ boost[i] = IF QueryHasRenalTerm(bquery)
                                  THEN 100 + 5 * capped ELSE 100
                   /\ boost[i] >= 100 /\ boost[i] <= 130
        /\ \A i, j \in 1..Len(bdocs) :
               RenalHits(bdocs[i]) <= RenalHits(bdocs[j]) => boost[i] <= boost[j]

\* a query with a domain term on documents with no, three and more than
\* six domain terms: boosts 1.00, 1.15 and the capped 1.30
C24_Witness ==
    /\ bpc = "done"
    /\ QueryHasRenalTerm(bquery)
    /\ \E i, j, k \in 1..Len(bdocs) :
           /\ RenalHits(bdocs[i]) = 0 /\ boost[i] = 100
           /\ RenalHits(bdocs[j]) = 3 /\ boost[j] = 115
           /\ RenalHits(bdocs[k]) > 6 /\ boost[k] = 130

\* ------------------------------------------------------------------------
\* The rebuild of the document embeddings, statement by statement, run by
\* retrieve calls of concurrent requests on one retriever
\* ------------------------------------------------------------------------
MaxBatches == 2

\* batch = 64
Batch == 64

Threads == {1, 2}

\* document counts that end on and next to a batch boundary
RebuildSizes ==
    UNION {{(b - 1) * Batch + 1, b * Batch} : b \in 1..MaxBatches}

\* matrices the loaders can leave for docs
RebuildLoaded(docs) ==
    {Embs(docs, D), ZeroEmbs, Embs(docs, OtherDim),
     Embs(SubSeq(docs, 1, Len(docs) - 1), D)}

InitRebuild ==
    /\ StoreIdle
    /\ AssistantIdle
    /\ FeedbackIdle
    /\ UiIdle
    /\ GatherIdle
    /\ AssembleIdle
    /\ ChunkIdle
    /\ BoostIdle
    /\ \E n \in RebuildSizes : rdocs = DocsOf("mixed", n)
    /\ rstored \in RebuildLoaded(rdocs)
    /\ rloaded = rstored
    /\ rpc = [t \in Threads |-> "retrieve"]
    /\ rvecs = [t \in Threads |-> <<>>]
    /\ rembs = [t \in Threads |-> ZeroEmbs]
    /\ rret = [t \in Threads |-> ZeroEmbs]

\* embs = self.embeddings_data.get("embeddings", ...) and the need_rebuild
\* tests of _ensure_doc_embeddings on that value
ReadStored(t) ==
    /\ rpc[t] = "retrieve"
    /\ rembs' = [rembs EXCEPT ![t] = rstored]
    /\ rvecs' = [rvecs EXCEPT ![t] = <<>>]
    /\ IF NeedRebuild(rdocs, rstored)
       THEN /\ rpc' = [rpc EXCEPT ![t] = "load"]
            /\ UNCHANGED rret
       ELSE /\ rpc' = [rpc EXCEPT ![t] = "returned"]
            /\ rret' = [rret EXCEPT ![t] = rstored]
    /\ UNCHANGED <<mainVars, feedbackVars, uiVars, gatherVars, assembleVars, chunkVars, boostVars, rdocs, rstored,
                   rloaded>>

\* self._lazy_load_encoder() inside the try block
LoadStep(t) ==
    /\ rpc[t] = "load"
    /\ \E ok \in BOOLEAN :
          IF ok
          THEN /\ rpc' = [rpc EXCEPT ![t] = "batch"]
               /\ UNCHANGED rret
          ELSE /\ rpc' = [rpc EXCEPT ![t] = "returned"]
               /\ rret' = [rret EXCEPT ![t] = ZeroEmbs]
    /\ UNCHANGED <<mainVars, feedbackVars, uiVars, gatherVars, assembleVars, chunkVars, boostVars, rdocs, rstored,
                   rloaded, rvecs, rembs>>

\* the stored matrix after one batch with these rows encoded so far, were
\* each batch written through
StoredAfterBatchPartial(stored, vecs) == Embs(vecs, D)

\* the stored matrix after one batch: vecs.append leaves it alone
StoredAfterBatch(stored, vecs) == stored

\* one turn of the batch loop: encode docs[i:i + batch] and append, or the
\* encoder raises and the except block returns an empty matrix
BatchStep(t) ==
    /\ rpc[t] = "batch"
    /\ Len(rvecs[t]) < Len(rdocs)
    /\ \E ok \in BOOLEAN :
          IF ok
          THEN LET i == Len(rvecs[t])
                   chunk == SubSeq(rdocs, i + 1, Min(i + Batch, Len(rdocs)))
               IN  /\ rvecs' = [rvecs EXCEPT ![t] = @ \o chunk]
                   /\ rstored' = StoredAfterBatch(rstored, rvecs'[t])
                   /\ UNCHANGED <<rpc, rret>>
          ELSE /\ rpc' = [rpc EXCEPT ![t] = "returned"]
               /\ rret' = [rret EXCEPT ![t] = ZeroEmbs]
               /\ UNCHANGED <<rvecs, rstored>>
    /\ UNCHANGED <<mainVars, feedbackVars, uiVars, gatherVars, assembleVars, chunkVars, boostVars, rdocs, rloaded,
                   rembs>>

\* rebuilt = np.vstack(vecs); self.embeddings_data["embeddings"] = rebuilt
StoreRebuilt(t) ==
    /\ rpc[t] = "batch"
    /\ Len(rvecs[t]) = Len(rdocs)
    /\ rstored' = Embs(rvecs[t], D)
    /\ rret' = [rret EXCEPT ![t] = Embs(rvecs[t], D)]
    /\ rpc' = [rpc EXCEPT ![t] = "returned"]
    /\ UNCHANGED <<mainVars, feedbackVars, uiVars, gatherVars, assembleVars, chunkVars, boostVars, rdocs, rloaded,
                   rvecs, rembs>>

\* the next retrieve call of the request
NextRetrieve(t) ==
    /\ rpc[t] = "returned"
    /\ rpc' = [rpc EXCEPT ![t] = "retrieve"]
    /\ UNCHANGED <<mainVars, feedbackVars, uiVars, gatherVars, assembleVars, chunkVars, boostVars, rdocs, rstored,
                   rloaded, rvecs, rembs, rret>>

NextRebuild ==
    \E t \in Threads :
        \/ ReadStored(t)
        \/ LoadStep(t)
        \/ BatchStep(t)
        \/ StoreRebuilt(t)
        \/ NextRetrieve(t)

SpecRebuild == InitRebuild /\ [][NextRebuild]_vars

\* C25: while a rebuild runs, and after it failed part-way, the stored
\* matrix and every value a retrieve call has read from it is either the
\* matrix that was loaded or the complete rebuilt one (one row per
\* document, 384 columns), never a matrix of only some batches.
C25_RebuildAtomic ==
    LET Whole(m) == m = rloaded \/ m = Embs(rdocs, 384) IN
    /\ Whole(rstored)
    /\ \A t \in Threads : rpc[t] # "retrieve" => Whole(rembs[t])

\* one call failed after its first batch while the other call is between
\* its batches, and the stored matrix is still the loaded one
C25_Witness ==
    /\ Len(rdocs) > Batch
    /\ \E t, u \in Threads :
           /\ rpc[t] = "returned" /\ rvecs[t] # <<>>
           /\ Len(rvecs[t]) < Len(rdocs) /\ rret[t] = ZeroEmbs
           /\ rpc[u] = "batch" /\ rvecs[u] # <<>> /\ Len(rvecs[u]) < Len(rdocs)
    /\ rstored = rloaded
    /\ NeedRebuild(rdocs, rstored)

\* ------------------------------------------------------------------------
\* The encoder and the immutability of the index
\* ------------------------------------------------------------------------
\* C26: a freshly created retriever has no encoder and has constructed
\* none; a retriever with zero documents never constructs one, whatever
\* retrieve calls it serves; over the life of a retriever the encoder is
\* constructed at most once (builds counts the constructions), so once it
\* is there no later call constructs it again.
C26_EncoderConstructedOnce ==
    /\ turns = 0 => encoder = "none" /\ builds = 0
    /\ Len(documents) = 0 => encoder = "none" /\ builds = 0
    /\ builds <= 1
    /\ encoder = "none" => builds = 0

\* an earlier call constructed the encoder and rebuilt the matrix; the
\* last call found the matrix in shape, encoded its query with that
\* encoder and constructed none
C26_Witness ==
    /\ lastRet.called
    /\ lastRet.path = "index"
    /\ ~lastRet.mismatch
    /\ rebuilds = 1
    /\ builds = 1
    /\ encoder = "loaded"

\* C27: after any sequence of retrieve calls, tagged or not, the
\* documents and the metadatas held by the index are what was loaded
\* (loaded records both at construction), and the content_type written
\* on a result does not reach the stored metadata of its chunk.
C27_IndexImmutable ==
    /\ documents = loaded.documents
    /\ metadatas = loaded.metadatas
    /\ lastRet.called /\ lastRet.path = "index" /\ lastRet.tag # NoTag =>
          \A i \in 1..Len(metadatas) :
              metadatas[i].content_type = loaded.metadatas[i].content_type

\* a tagged call returned a chunk of the index under the tag while the
\* stored metadata of that chunk keeps its own content_type
C27_Witness ==
    /\ lastRet.called
    /\ lastRet.path = "index"
    /\ lastRet.tag # NoTag
    /\ \E j \in 1..Len(lastRet.results), i \in 1..Len(metadatas) :
           /\ lastRet.results[j].text = documents[i]
           /\ lastRet.results[j].metadata.content_type = lastRet.tag
           /\ lastRet.results[j].metadata = Retag(metadatas[i], lastRet.tag)
           /\ metadatas[i].content_type # lastRet.tag

\* ------------------------------------------------------------------------
\* _get_relevant_content, facet by facet, on one retriever
\* ------------------------------------------------------------------------
GatherTexts == {BlankText, BeamText, UreaText}

InitGather ==
    /\ StoreIdle
    /\ AssistantIdle
    /\ FeedbackIdle
    /\ UiIdle
    /\ AssembleIdle
    /\ ChunkIdle
    /\ BoostIdle
    /\ RebuildIdle
    /\ gquestion \in Queries
    /\ \E n \in 0..MaxDocs : gdocs \in [1..n -> GatherTexts]
    /\ gmetas = MetasOf("plain", Len(gdocs))
    /\ \E e \in {"match", "none"} : gembs = EmbsOf(e, gdocs)
    /\ gencoder \in {"none", "loaded"}
    /\ gstable \in BOOLEAN
    /\ gpc = "concept"
    /\ gconcept = <<>>
    /\ gall = <<>>
    /\ gunique = <<>>
    /\ genvs = <<>>
    /\ gembs0 = gembs

\* one facet: retrieve_relevant_content(question, k, tag_as = tag), its
\* results appended to all_content
GatherFacet(at, k, tag, next) ==
    /\ gpc = at
    /\ \E env \in Envs :
          LET r == RetrieveRelevantContent(gquestion, k, tag, gdocs, gmetas,
                                           gembs, gencoder, env)
          IN  /\ env.stable = gstable
              /\ gembs' = r.stored
              /\ gencoder' = r.encoder
              /\ genvs' = Append(genvs, env)
              /\ gall' = gall \o r.results
              /\ gconcept' = IF at = "concept" THEN r.results ELSE gconcept
              /\ gpc' = IF r.exc THEN "raised" ELSE next
    /\ UNCHANGED <<mainVars, feedbackVars, uiVars, assembleVars, chunkVars, boostVars, rebuildVars,
                   gquestion, gdocs, gmetas, gstable, gunique, gembs0>>

\* concept_content = self.rag.get_concept_related_content(question, 2)
GatherConcept == GatherFacet("concept", ConceptK, "course_slide", "exercise")

\* exercise_content = self.rag.get_similar_exercises(question, 2)
GatherExercises ==
    GatherFacet("exercise", ExerciseK, "exercise_question", "solution")

\* solution_content = self.rag.get_solution_guidance(question, 1)
GatherSolution ==
    GatherFacet("solution", SolutionK, "exercise_solution", "combine")

\* unique_content = self._deduplicate_content(all_content);
\* return unique_content[:5]
GatherCombine ==
    /\ gpc = "combine"
    /\ gunique' = CapContext(DeduplicateContent(gall))
    /\ gpc' = "done"
    /\ UNCHANGED <<mainVars, feedbackVars, uiVars, assembleVars, chunkVars, boostVars, rebuildVars,
                   gquestion, gdocs, gmetas, gembs, gencoder, gstable,
                   gconcept, gall, genvs, gembs0>>

NextGather ==
    \/ GatherConcept
    \/ GatherExercises
    \/ GatherSolution
    \/ GatherCombine

SpecGather == InitGather /\ [][NextGather]_vars

\* the stored matrix and what the encoder can do were the same for the
\* three facets of the request
SteadyRequest ==
    /\ gembs = gembs0
    /\ \A i \in 1..Len(genvs) : genvs[i] = genvs[1]

\* C28: when the index and the encoder availability stay the same during
\* a request, the assembled chunks are the deduplicated results of the
\* concept facet alone, all tagged course_slide, and at most three.
C28_ConceptFacetOnly ==
    gpc = "done" /\ SteadyRequest =>
        /\ gunique = DeduplicateContent(gconcept)
        /\ \A i \in 1..Len(gunique) :
               gunique[i].metadata.content_type = "course_slide"
        /\ Len(gunique) <= 3

\* ------------------------------------------------------------------------
\* One UI session: the submit handler of main(), generate_response's
\* logging and the conversations table of the external store
\* ------------------------------------------------------------------------
\* str(uuid.uuid4()): the n-th identifier issued, distinct from the others
Uuid(n) == <<n>>

\* "session_id" not in st.session_state
NoSession == <<>>

\* store_conversation(session_id, ...): without a client nothing is
\* inserted and False is returned; with one the insert succeeds or fails
StoreConversation(table, sid, q, resp, ok) ==
    IF connected /\ ok
    THEN Append(table, [session_id |-> sid, user_question |-> q,
                        ta_response |-> resp, turn |-> uiTurn])
    ELSE table

\* the session opens: StaticsMechanicsTA.__init__ draws its session id
InitUi ==
    /\ StoreIdle
    /\ AssistantIdle
    /\ FeedbackIdle
    /\ AssembleIdle
    /\ ChunkIdle
    /\ BoostIdle
    /\ RebuildIdle
    /\ GatherIdle
    /\ connected \in BOOLEAN
    /\ ta_session_id = Uuid(1)
    /\ ui_session_id = NoSession
    /\ uuids = 1
    /\ conversations = <<>>
    /\ uiPc = "form"
    /\ uiTurn = 0
    /\ user_input = ""
    /\ response_data = NoVal
    /\ turnCalls = 0

\* if submit_button and user_input: the session id is created if absent
UiSubmit ==
    /\ uiPc = "form"
    /\ uiTurn < MaxTurns
    /\ \E q \in Queries : user_input' = q
    /\ uiTurn' = uiTurn + 1
    /\ IF ui_session_id = NoSession
       THEN ui_session_id' = Uuid(uuids + 1) /\ uuids' = uuids + 1
       ELSE UNCHANGED <<ui_session_id, uuids>>
    /\ response_data' = NoVal
    /\ turnCalls' = 0
    /\ uiPc' = "generate"
    /\ UNCHANGED <<mainVars, feedbackVars, assembleVars, chunkVars, boostVars, rebuildVars,
                   gatherVars, connected, ta_session_id, conversations>>

\* response_data = ta_system.generate_response(...): the success path ends
\* with _log_interaction, which calls store_conversation with the
\* assistant's session id; the except path returns the error dictionary
\* without logging
UiGenerate ==
    /\ uiPc = "generate"
    /\ \/ \E ok \in BOOLEAN :
             /\ response_data' = "answer"
             /\ conversations' = StoreConversation(conversations,
                                     ta_session_id, user_input, "answer", ok)
             /\ turnCalls' = turnCalls + 1
       \/ /\ response_data' = "technical difficulties"
          /\ UNCHANGED <<conversations, turnCalls>>
    /\ uiPc' = "store"
    /\ UNCHANGED <<mainVars, feedbackVars, assembleVars, chunkVars, boostVars, rebuildVars,
                   gatherVars, connected, ta_session_id, ui_session_id, uuids,
                   uiTurn, user_input>>

\* if supabase_config.is_connected(): conversation_storage
\* .store_conversation(session_id = st.session_state.session_id, ...)
UiStore ==
    /\ uiPc = "store"
    /\ IF connected
       THEN \E ok \in BOOLEAN :
               /\ conversations' = StoreConversation(conversations,
                                       ui_session_id, user_input,
                                       response_data, ok)
               /\ turnCalls' = turnCalls + 1
       ELSE UNCHANGED <<conversations, turnCalls>>
    /\ uiPc' = "form"
    /\ UNCHANGED <<mainVars, feedbackVars, assembleVars, chunkVars, boostVars, rebuildVars,
                   gatherVars, connected, ta_session_id, ui_session_id, uuids,
                   uiTurn, user_input, response_data>>

NextUi ==
    \/ UiSubmit
    \/ UiGenerate
    \/ UiStore

SpecUi == InitUi /\ [][NextUi]_vars

\* C29: every turn leaves at most one record in the conversations table,
\* store_conversation is called at most once per turn, and all records
\* of the session carry one session id.
C29_OneRecordPerTurn ==
    /\ turnCalls <= 1
    /\ \A i, j \in 1..Len(conversations) :
           /\ conversations[i].turn = conversations[j].turn => i = j
           /\ conversations[i].session_id = conversations[j].session_id

\* ------------------------------------------------------------------------
\* FeedbackStorage without a database client: the JSON fallback file.
\* fallback_file is "missing", "corrupt" (not JSON) or "ok"; feedback_data
\* is the list it holds when ok
\* ------------------------------------------------------------------------
MaxEntries == 3

Sessions == {"s1", "s2"}
MessageIndexes == {0, 1}
FeedbackTypes == {"helpful", "not_helpful"}

FeedbackEntry(s, m, t) ==
    [session_id |-> s, message_index |-> m, feedback_type |-> t]

\* entry.get('session_id') == session_id and
\* entry.get('message_index') == message_index
Matches(entry, s, m) == entry.session_id = s /\ entry.message_index = m

InitFeedback ==
    /\ StoreIdle
    /\ AssistantIdle
    /\ AssembleIdle
    /\ ChunkIdle
    /\ BoostIdle
    /\ RebuildIdle
    /\ GatherIdle
    /\ UiIdle
    /\ fallback_file \in {"missing", "corrupt"}
    /\ feedback_data = <<>>
    /\ fbLast = [op |-> "none"]

\* the call just made, what it returned and whether it changed the file
Called(op, s, m, t, ret) ==
    [op |-> op, session_id |-> s, message_index |-> m, feedback_type |-> t,
     ret |-> ret,
     changed |-> fallback_file' # fallback_file
                 \/ feedback_data' # feedback_data]

\* _store_in_json: the entry is appended to the list read from the file
\* (empty when the file is missing or corrupt) and the file is written;
\* when opening the file for writing raises, False is returned
StoreFeedback ==
    /\ Len(feedback_data) < MaxEntries
    /\ \E s \in Sessions, m \in MessageIndexes, t \in FeedbackTypes,
          write \in {"ok", "raise"} :
          /\ IF write = "ok"
             THEN /\ feedback_data' = Append(feedback_data,
                                             FeedbackEntry(s, m, t))
                  /\ fallback_file' = "ok"
             ELSE UNCHANGED <<fallback_file, feedback_data>>
          /\ fbLast' = Called("store", s, m, t, write = "ok")
    /\ UNCHANGED <<mainVars, assembleVars, chunkVars, boostVars, rebuildVars,
                   gatherVars, uiVars>>

\* the for loop of _update_in_json: the first matching entry gets the new
\* type, then break
UpdatedFirst(data, s, m, t) ==
    [i \in 1..Len(data) |->
        IF Matches(data[i], s, m)
           /\ \A j \in 1..(i - 1) : ~Matches(data[j], s, m)
        THEN [data[i] EXCEPT !.feedback_type = t]
        ELSE data[i]]

\* _update_in_json: False without a file, on a file that does not parse,
\* when no entry matches and when the write raises
UpdateFeedback ==
    /\ \E s \in Sessions, m \in MessageIndexes, t \in FeedbackTypes,
          write \in {"ok", "raise"} :
          LET updated == fallback_file = "ok"
                         /\ \E i \in 1..Len(feedback_data) :
                               Matches(feedback_data[i], s, m)
          IN  /\ IF updated /\ write = "ok"
                 THEN feedback_data' = UpdatedFirst(feedback_data, s, m, t)
                 ELSE UNCHANGED feedback_data
              /\ UNCHANGED fallback_file
              /\ fbLast' = Called("update", s, m, t, updated /\ write = "ok")
    /\ UNCHANGED <<mainVars, assembleVars, chunkVars, boostVars, rebuildVars,
                   gatherVars, uiVars>>

\* the entries that do not match
Remaining(data, s, m) == SelectSeq(data, LAMBDA e : ~Matches(e, s, m))

\* _delete_in_json: False without a file, on a file that does not parse,
\* when no entry matches and when the write raises
DeleteFeedback ==
    /\ \E s \in Sessions, m \in MessageIndexes, write \in {"ok", "raise"} :
          LET kept == Remaining(feedback_data, s, m)
              found == fallback_file = "ok"
                       /\ \E i \in 1..Len(feedback_data) :
                             Matches(feedback_data[i], s, m)
          IN  /\ IF found /\ write = "ok"
                 THEN feedback_data' = kept
                 ELSE UNCHANGED feedback_data
              /\ UNCHANGED fallback_file
              /\ fbLast' = Called("delete", s, m, "", found /\ write = "ok")
    /\ UNCHANGED <<mainVars, assembleVars, chunkVars, boostVars, rebuildVars,
                   gatherVars, uiVars>>

NextFeedback ==
    \/ StoreFeedback
    \/ UpdateFeedback
    \/ DeleteFeedback

SpecFeedback == InitFeedback /\ [][NextFeedback]_vars

\* C30: after update_feedback(s, m, t) returned true every stored entry
\* for (s, m) has type t; after delete_feedback(s, m) returned true no
\* entry for (s, m) is stored; after either returned false the stored
\* entries are as before the call.
C30_FeedbackOps ==
    /\ fbLast.op = "update" /\ fbLast.ret =>
          \A i \in 1..Len(feedback_data) :
              Matches(feedback_data[i], fbLast.session_id,
                      fbLast.message_index)
              => feedback_data[i].feedback_type = fbLast.feedback_type
    /\ fbLast.op = "delete" /\ fbLast.ret =>
          \A i \in 1..Len(feedback_data) :
              ~Matches(feedback_data[i], fbLast.session_id,
                       fbLast.message_index)
    /\ fbLast.op \in {"update", "delete"} /\ ~fbLast.ret => ~fbLast.changed

====
